---- MODULE Spec2Model ----
(***************************************************************************)
(* A model of the REST access layer of the DSCC client library            *)
(* (src/dsccClass.py, class DSCC and class DsccError): the session held   *)
(* by one client object, the token exchange, the five verb operations,    *)
(* the search helper, and the remote service they talk to; then callers   *)
(* sharing the object with a token refresh, an object of a facade class   *)
(* (Alletra6k, Alletra9k, User, HCI), and two objects side by side.       *)
(*                                                                         *)
(* Python values are modelled as tagged records so that values of         *)
(* different Python types can be compared: None, str, dict (an ordered    *)
(* sequence of <<key, value>> pairs, as Python dicts keep insertion       *)
(* order) and list.  The headers map, a dict from str to str, is a        *)
(* function from header names to header values.                            *)
(***************************************************************************)
EXTENDS Integers, Sequences, FiniteSets, TLC

\* ------------------------------------------------------------------ bounds

\* How many distinct bearer tokens the identity provider can hand out.
NumTokens == 2

\* The longest collection handed to daSearch.
MaxItems == 2

\* How many successful token exchanges the concurrent runs follow.
MaxRefreshes == 2

\* ----------------------------------------------------------- Python values

PyNone == [type |-> "NoneType"]

PyStr(s) == [type |-> "str", val |-> s]

PyInt(n) == [type |-> "int", val |-> n]

PyBool(b) == [type |-> "bool", val |-> b]

PyDict(items) == [type |-> "dict", items |-> items]

PyList(elems) == [type |-> "list", elems |-> elems]

\* Python truth value, as tested by `if body:`.
truthy(v) ==
    CASE v.type = "NoneType" -> FALSE
      [] v.type = "str" -> v.val # ""
      [] v.type = "int" -> v.val # 0
      [] v.type = "bool" -> v.val
      [] v.type = "dict" -> v.items # <<>>
      [] v.type = "list" -> v.elems # <<>>

\* `key in d` for a dict value.
HasKey(d, key) == \E i \in 1..Len(d.items) : d.items[i][1] = key

\* d[key] for a dict value that has the key.
GetItem(d, key) ==
    d.items[CHOOSE i \in 1..Len(d.items) : d.items[i][1] = key][2]

\* a == b for Python values: values of different types are unequal.
PyEq(a, b) == a.type = b.type /\ a = b

\* headers[key] = value on the headers map.
SetHeader(h, key, value) ==
    [k \in (DOMAIN h) \cup {key} |-> IF k = key THEN value ELSE h[k]]

\* ------------------------------------------------------------------- json

RECURSIVE escape(_)
\* The body of a JSON string literal for the text s: json.dumps writes the
\* quote, the backslash and the line feed as escape sequences.  The text
\* is taken apart by halves.
escape(s) ==
    IF Len(s) = 0 THEN ""
    ELSE IF Len(s) = 1
         THEN CASE s = "\"" -> "\\\""
                [] s = "\\" -> "\\\\"
                [] s = "\n" -> "\\n"
                [] OTHER -> s
         ELSE escape(SubSeq(s, 1, Len(s) \div 2)) \o escape(SubSeq(s, Len(s) \div 2 + 1, Len(s)))

RECURSIVE json_dumps(_)
RECURSIVE dumps_pairs(_)
RECURSIVE dumps_elems(_)

\* json.dumps(v) with the default separators ", " and ": ".
json_dumps(v) ==
    CASE v.type = "NoneType" -> "null"
      [] v.type = "str" -> "\"" \o escape(v.val) \o "\""
      [] v.type = "int" -> ToString(v.val)
      [] v.type = "bool" -> IF v.val THEN "true" ELSE "false"
      [] v.type = "dict" -> "{" \o dumps_pairs(v.items) \o "}"
      [] v.type = "list" -> "[" \o dumps_elems(v.elems) \o "]"

dumps_pairs(items) ==
    IF items = <<>> THEN ""
    ELSE "\"" \o items[1][1] \o "\": " \o json_dumps(items[1][2])
         \o (IF Len(items) > 1 THEN ", " \o dumps_pairs(Tail(items)) ELSE "")

dumps_elems(elems) ==
    IF elems = <<>> THEN ""
    ELSE json_dumps(elems[1])
         \o (IF Len(elems) > 1 THEN ", " \o dumps_elems(Tail(elems)) ELSE "")

RECURSIVE pad(_)
\* The indentation of nesting level n under indent=4.
pad(n) == IF n = 0 THEN "" ELSE "    " \o pad(n - 1)

RECURSIVE json_dumps_indent(_, _)
RECURSIVE dumps_pairs_indent(_, _)
RECURSIVE dumps_elems_indent(_, _)

\* json.dumps(v, indent=4), v at nesting level n: one member per line,
\* empty containers stay "{}" and "[]".
json_dumps_indent(v, n) ==
    CASE v.type = "NoneType" -> "null"
      [] v.type = "str" -> "\"" \o escape(v.val) \o "\""
      [] v.type = "int" -> ToString(v.val)
      [] v.type = "bool" -> IF v.val THEN "true" ELSE "false"
      [] v.type = "dict" ->
            IF v.items = <<>> THEN "{}"
            ELSE "{\n" \o dumps_pairs_indent(v.items, n + 1) \o "\n" \o pad(n) \o "}"
      [] v.type = "list" ->
            IF v.elems = <<>> THEN "[]"
            ELSE "[\n" \o dumps_elems_indent(v.elems, n + 1) \o "\n" \o pad(n) \o "]"

dumps_pairs_indent(items, n) ==
    pad(n) \o "\"" \o items[1][1] \o "\": " \o json_dumps_indent(items[1][2], n)
    \o (IF Len(items) > 1 THEN ",\n" \o dumps_pairs_indent(Tail(items), n) ELSE "")

dumps_elems_indent(elems, n) ==
    pad(n) \o json_dumps_indent(elems[1], n)
    \o (IF Len(elems) > 1 THEN ",\n" \o dumps_elems_indent(Tail(elems), n) ELSE "")

\* Every JSON value the remote service may answer with, or a caller may send.
JsonUniverse ==
    { PyDict(<< <<"items", PyList(<< PyDict(<< <<"name", PyStr("pool-1")>> >>) >>)>> >>),
      PyDict(<< <<"items", PyList(<<>>)>> >>),
      PyDict(<< <<"id", PyStr("task-1")>> >>),
      PyDict(<< <<"name", PyStr("vol-1")>> >>),
      PyDict(<<>>) }

\* Whether a response text is JSON.
IsJson(text) == \E v \in JsonUniverse : json_dumps(v) = text

\* json.loads(text) for a text that is JSON: the value it serializes.
json_loads(text) == CHOOSE v \in JsonUniverse : json_dumps(v) = text

\* --------------------------------------------------------------- outcomes

\* How a call ends: it returns a value or raises an exception.
Return(v) == [kind |-> "return", value |-> v]

Raise(e) == [kind |-> "raise", exc |-> e]

\* class DsccError(Exception): the three fields its constructor stores.
DsccError(location, status, message) ==
    [type |-> "DsccError", expression |-> location, message |-> message, status |-> status]

\* What a method did: the object afterwards, the requests it issued in
\* order, and how it ended.
Effect(self, requests, result) == [self |-> self, sent |-> requests, outcome |-> result]

\* ------------------------------------------------------------ the remote

\* Status codes the remote service answers with.
Statuses == {200, 201, 202, 204, 401, 500}

\* Response bodies the remote service answers with; the last is not JSON.
Texts ==
    { json_dumps(PyDict(<< <<"items", PyList(<< PyDict(<< <<"name", PyStr("pool-1")>> >>) >>)>> >>)),
      json_dumps(PyDict(<< <<"items", PyList(<<>>)>> >>)),
      json_dumps(PyDict(<< <<"id", PyStr("task-1")>> >>)),
      "<html>Bad Gateway</html>" }

Responses == [status_code : Statuses, text : Texts]

\* response.json(): the parsed body, or the decoder's exception.
json(response) ==
    IF IsJson(response.text) THEN Return(json_loads(response.text))
    ELSE Raise([type |-> "JSONDecodeError"])

\* Bearer tokens the identity provider hands out.
Tokens == {"tok" \o ToString(i) : i \in 1..NumTokens}

\* What the token endpoint does with one exchange: it issues a token, or
\* the exchange fails (no connection, credentials refused, answer without
\* a token).
TokenReplies ==
    {[ok |-> TRUE, token |-> t] : t \in Tokens}
    \cup {[ok |-> FALSE, error |-> e] :
             e \in {"ConnectionError", "InvalidClientError", "MissingTokenError"}}

\* ------------------------------------------------------------- class DSCC

BaseUrl == "https://eu1.data.cloud.hpe.com"

TokenUrl == "https://sso.common.cloud.hpe.com/as/token.oauth2"

\* DSCC.__init__
DSCC_init(baseUrl, id, secret) ==
    [url |-> baseUrl,
     access_token |-> PyStr(""),
     headers |-> [k \in {} |-> ""],
     clientID |-> id,
     clientSecret |-> secret]

\* oauth.fetch_token(token_url, auth): the token dict, or the exception of
\* the failed exchange.
fetch_token(reply) ==
    IF reply.ok
    THEN Return(PyDict(<< <<"access_token", PyStr(reply.token)>>,
                          <<"token_type", PyStr("Bearer")>> >>))
    ELSE Raise([type |-> reply.error])

\* str(v) for the values it is applied to.
str(v) ==
    CASE v.type = "str" -> v.val
      [] v.type = "int" -> ToString(v.val)
      [] v.type = "NoneType" -> "None"

\* The token request: a client-credentials grant with HTTP Basic
\* authentication.
TokenRequest(self) ==
    [method |-> "POST", url |-> TokenUrl,
     auth |-> [username |-> self.clientID, password |-> self.clientSecret],
     grant_type |-> "client_credentials"]

\* getAccessToken as it would be if a failed exchange reset the headers.
getAccessToken_resetOnFailure(self, reply) ==
    LET fetched == fetch_token(reply)
    IN  IF fetched.kind = "raise"
        THEN Effect([self EXCEPT !.headers = [k \in {} |-> ""]], <<TokenRequest(self)>>, fetched)
        ELSE LET token == fetched.value
             IN  Effect([self EXCEPT !.access_token = token,
                                     !.headers = [Authorization |-> "Bearer " \o str(GetItem(token, "access_token")),
                                                  Accept |-> "application/json"]],
                        <<TokenRequest(self)>>,
                        Return(PyNone))

\* getAccessToken as it would be if it updated the entries of the existing
\* headers dict instead of building a new one.
getAccessToken_inPlace(self, reply) ==
    LET fetched == fetch_token(reply)
    IN  IF fetched.kind = "raise"
        THEN Effect(self, <<TokenRequest(self)>>, fetched)
        ELSE LET token == fetched.value
             IN  Effect([self EXCEPT !.access_token = token,
                                     !.headers = SetHeader(SetHeader(self.headers, "Authorization",
                                                     "Bearer " \o str(GetItem(token, "access_token"))),
                                                     "Accept", "application/json")],
                        <<TokenRequest(self)>>,
                        Return(PyNone))

\* getAccessToken as it would be if it built the headers only when none
\* were set yet.
getAccessToken_keepFirst(self, reply) ==
    LET fetched == fetch_token(reply)
    IN  IF fetched.kind = "raise"
        THEN Effect(self, <<TokenRequest(self)>>, fetched)
        ELSE LET token == fetched.value
             IN  Effect([self EXCEPT !.access_token = token,
                                     !.headers = IF "Authorization" \in DOMAIN self.headers
                                                 THEN self.headers
                                                 ELSE [Authorization |-> "Bearer " \o str(GetItem(token, "access_token")),
                                                       Accept |-> "application/json"]],
                        <<TokenRequest(self)>>,
                        Return(PyNone))

\* DSCC.getAccessToken
getAccessToken(self, reply) ==
    LET fetched == fetch_token(reply)
    IN  IF fetched.kind = "raise"
        THEN Effect(self, <<TokenRequest(self)>>, fetched)
        ELSE LET token == fetched.value
                 newHeaders ==
                     [Authorization |-> "Bearer " \o str(GetItem(token, "access_token")),
                      Accept |-> "application/json"]
             IN  Effect([self EXCEPT !.access_token = token, !.headers = newHeaders],
                        <<TokenRequest(self)>>,
                        Return(PyNone))

\* One outbound call of the requests library, verify=False.
Request(method, target, hdrs, data) ==
    [method |-> method, url |-> target, headers |-> hdrs, data |-> data, verify |-> FALSE]

\* doGet as it would be if it accepted the status codes of the other verbs.
doGet_acceptsWriteCodes(self, target, response) ==
    Effect(self,
           <<Request("GET", target, self.headers, PyNone)>>,
           IF \/ response.status_code = 200
              \/ response.status_code = 201
              \/ response.status_code = 202
           THEN json(response)
           ELSE Raise(DsccError("doGet " \o target, response.status_code, response)))

\* doGet as it would be if a 401 made it fetch a new token and carry on
\* with it.
doGet_refreshOn401(self, target, response) ==
    LET renewed == [Authorization |-> "Bearer renewed", Accept |-> "application/json"]
    IN  IF response.status_code = 401
        THEN Effect([self EXCEPT !.access_token = PyDict(<< <<"access_token", PyStr("renewed")>> >>),
                                 !.headers = renewed],
                    <<Request("GET", target, self.headers, PyNone)>>,
                    Raise(DsccError("doGet " \o target, response.status_code, response)))
        ELSE Effect(self,
                    <<Request("GET", target, self.headers, PyNone)>>,
                    IF response.status_code = 200
                    THEN json(response)
                    ELSE Raise(DsccError("doGet " \o target, response.status_code, response)))

\* DSCC.doGet
doGet(self, target, response) ==
    Effect(self,
           <<Request("GET", target, self.headers, PyNone)>>,
           IF response.status_code = 200
           THEN json(response)
           ELSE Raise(DsccError("doGet " \o target, response.status_code, response)))

\* doPost as it would be if it set the Content-Type whether or not there
\* is a body.
doPost_alwaysContentType(self, target, body, response) ==
    LET hdrs == SetHeader(self.headers, "Content-Type", "application/json")
        data == IF truthy(body) THEN PyStr(json_dumps(body)) ELSE PyNone
    IN  Effect([self EXCEPT !.headers = hdrs],
               <<Request("POST", target, hdrs, data)>>,
               IF \/ response.status_code = 200
                  \/ response.status_code = 201
                  \/ response.status_code = 202
               THEN json(response)
               ELSE Raise(DsccError("doPost " \o target, response.status_code, response)))

\* DSCC.doPost.  `headers = self.headers` binds the session's own dict, so
\* the Content-Type entry is written into self.headers.
doPost(self, target, body, response) ==
    LET hdrs == IF truthy(body)
                THEN SetHeader(self.headers, "Content-Type", "application/json")
                ELSE self.headers
        data == IF truthy(body) THEN PyStr(json_dumps(body)) ELSE PyNone
    IN  Effect([self EXCEPT !.headers = hdrs],
               <<Request("POST", target, hdrs, data)>>,
               IF \/ response.status_code = 200
                  \/ response.status_code = 201
                  \/ response.status_code = 202
               THEN json(response)
               ELSE Raise(DsccError("doPost " \o target, response.status_code, response)))

\* doDelete as it would be if its error named the operation without the url.
doDelete_tagOnly(self, target, response) ==
    Effect(self,
           <<Request("DELETE", target, self.headers, PyNone)>>,
           IF \/ response.status_code = 200
              \/ response.status_code = 201
              \/ response.status_code = 202
           THEN json(response)
           ELSE Raise(DsccError("doDelete", response.status_code, response)))

\* doDelete as it would be if it tried a refused request a second time.
doDelete_retries(self, target, response) ==
    LET request == Request("DELETE", target, self.headers, PyNone)
        accepted == \/ response.status_code = 200
                    \/ response.status_code = 201
                    \/ response.status_code = 202
    IN  Effect(self,
               IF accepted THEN <<request>> ELSE <<request, request>>,
               IF accepted
               THEN json(response)
               ELSE Raise(DsccError("doDelete " \o target, response.status_code, response)))

\* DSCC.doDelete
doDelete(self, target, response) ==
    Effect(self,
           <<Request("DELETE", target, self.headers, PyNone)>>,
           IF \/ response.status_code = 200
              \/ response.status_code = 201
              \/ response.status_code = 202
           THEN json(response)
           ELSE Raise(DsccError("doDelete " \o target, response.status_code, response)))

\* doPatch as it would be if it did not accept 202.
doPatch_rejects202(self, target, body, response) ==
    LET hdrs == IF truthy(body)
                THEN SetHeader(self.headers, "Content-Type", "application/json")
                ELSE self.headers
        data == IF truthy(body) THEN PyStr(json_dumps(body)) ELSE PyNone
    IN  Effect([self EXCEPT !.headers = hdrs],
               <<Request("PATCH", target, hdrs, data)>>,
               IF \/ response.status_code = 200
                  \/ response.status_code = 201
               THEN json(response)
               ELSE Raise(DsccError("doPost " \o target, response.status_code, response)))

\* DSCC.doPatch
doPatch(self, target, body, response) ==
    LET hdrs == IF truthy(body)
                THEN SetHeader(self.headers, "Content-Type", "application/json")
                ELSE self.headers
        data == IF truthy(body) THEN PyStr(json_dumps(body)) ELSE PyNone
    IN  Effect([self EXCEPT !.headers = hdrs],
               <<Request("PATCH", target, hdrs, data)>>,
               IF \/ response.status_code = 200
                  \/ response.status_code = 201
                  \/ response.status_code = 202
               THEN json(response)
               ELSE Raise(DsccError("doPost " \o target, response.status_code, response)))

\* doPut as it would be if it tested `body is not None`.
doPut_bodyNotNone(self, target, body, response) ==
    LET hdrs == IF body # PyNone
                THEN SetHeader(self.headers, "Content-Type", "application/json")
                ELSE self.headers
        data == IF body # PyNone THEN PyStr(json_dumps_indent(body, 0)) ELSE PyNone
    IN  Effect([self EXCEPT !.headers = hdrs],
               <<Request("PUT", target, hdrs, data)>>,
               IF \/ response.status_code = 200
                  \/ response.status_code = 201
                  \/ response.status_code = 202
               THEN json(response)
               ELSE Raise(DsccError("doPost " \o target, response.status_code, response)))

\* DSCC.doPut
doPut(self, target, body, response) ==
    LET hdrs == IF truthy(body)
                THEN SetHeader(self.headers, "Content-Type", "application/json")
                ELSE self.headers
        data == IF truthy(body) THEN PyStr(json_dumps_indent(body, 0)) ELSE PyNone
    IN  Effect([self EXCEPT !.headers = hdrs],
               <<Request("PUT", target, hdrs, data)>>,
               IF \/ response.status_code = 200
                  \/ response.status_code = 201
                  \/ response.status_code = 202
               THEN json(response)
               ELSE Raise(DsccError("doPost " \o target, response.status_code, response)))

\* The positional parameters of doGet after self.
doGetParams == <<"url">>

\* DSCC.doSearch: self.doGet(self.url+'/search', query)['items'].  The call
\* passes two positional arguments to a method that takes one, which Python
\* refuses with a TypeError before doGet's body runs.
doSearch(self, query, response) ==
    LET args == <<self.url \o "/search", query>>
    IN  IF Len(args) # Len(doGetParams)
        THEN Effect(self, <<>>, Raise([type |-> "TypeError"]))
        ELSE LET got == doGet(self, args[1], response)
             IN  IF got.outcome.kind = "raise" THEN got
                 ELSE IF HasKey(got.outcome.value, "items")
                      THEN Effect(got.self, got.sent, Return(GetItem(got.outcome.value, "items")))
                      ELSE Effect(got.self, got.sent, Raise([type |-> "KeyError"]))

\* got['items'] on the result of a call: the exception of the call if it
\* raised, KeyError if the parsed body has no such field.
Subscript(got, key) ==
    IF got.outcome.kind = "raise" THEN got
    ELSE IF HasKey(got.outcome.value, key)
         THEN Effect(got.self, got.sent, Return(GetItem(got.outcome.value, key)))
         ELSE Effect(got.self, got.sent, Raise([type |-> "KeyError"]))

\* getSettings as it would be if it read the field with a default.
getSettings_defaultEmpty(self, response) ==
    LET got == doGet(self, self.url \o "/api/v1/settings", response)
    IN  IF got.outcome.kind = "raise" THEN got
        ELSE IF HasKey(got.outcome.value, "items")
             THEN Effect(got.self, got.sent, Return(GetItem(got.outcome.value, "items")))
             ELSE Effect(got.self, got.sent, Return(PyList(<<>>)))

\* DSCC.getSettings
getSettings(self, response) ==
    Subscript(doGet(self, self.url \o "/api/v1/settings", response), "items")

\* StorageSystems.getStorageSystems
getStorageSystems(self, response) ==
    Subscript(doGet(self, self.url \o "/api/v1/storage-systems", response), "items")

\* -------------------------------------------------- the facade classes

\* Alletra6k.__init__: the base constructor, then systemId and systemurl.
Alletra6k_init(baseUrl, id, secret, sysId) ==
    LET base == DSCC_init(baseUrl, id, secret)
    IN  [url |-> base.url, access_token |-> base.access_token, headers |-> base.headers,
         clientID |-> base.clientID, clientSecret |-> base.clientSecret,
         systemId |-> str(sysId),
         systemurl |-> base.url \o "/api/v1/storage-systems/device-type2/" \o str(sysId)]

\* Alletra9k.__init__
Alletra9k_init(baseUrl, id, secret, sysId) ==
    LET base == DSCC_init(baseUrl, id, secret)
    IN  [url |-> base.url, access_token |-> base.access_token, headers |-> base.headers,
         clientID |-> base.clientID, clientSecret |-> base.clientSecret,
         systemId |-> str(sysId),
         systemurl |-> base.url \o "/api/v1/storage-systems/device-type1/" \o str(sysId)]

\* The constructor of the classes that add no attribute of their own (User,
\* HCI): DSCC.__init__.
Plain_init(baseUrl, id, secret) ==
    LET base == DSCC_init(baseUrl, id, secret)
    IN  [url |-> base.url, access_token |-> base.access_token, headers |-> base.headers,
         clientID |-> base.clientID, clientSecret |-> base.clientSecret,
         systemId |-> "", systemurl |-> ""]

\* Alletra6k.getSystem
getSystem(self, response) == doGet(self, self.systemurl, response)

\* getNicDetails as it would be if it completed the prefix kept in the
\* object before using it.
getNicDetails_repairsPrefix(self, networkInterfaceId, response) ==
    LET repaired == [self EXCEPT !.systemurl = self.systemurl \o "/"]
    IN  doGet(repaired, repaired.systemurl \o "network-interfaces/" \o str(networkInterfaceId),
              response)

\* Alletra6k.getNicDetails: the sub-path is appended without a "/".
getNicDetails(self, networkInterfaceId, response) ==
    doGet(self, self.systemurl \o "network-interfaces/" \o str(networkInterfaceId), response)

\* Alletra6k.getVolumes: addressed under storage-systems/{systemId}, not
\* under systemurl.
Alletra6k_getVolumes(self, response) ==
    Subscript(doGet(self, self.url \o "/api/v1/storage-systems/" \o self.systemId \o "/volumes",
                    response),
              "items")

\* Alletra6k.createStoragePool
createStoragePool(self, body, response) ==
    doPost(self, self.systemurl \o "/storage-pools", body, response)

\* Alletra6k.editSystem
editSystem(self, body, response) == doPut(self, self.systemurl, body, response)

\* Alletra6k.deletePerformancePolicy
deletePerformancePolicy(self, performancePolicyId, response) ==
    doDelete(self, self.systemurl \o "/performance-policies/" \o str(performancePolicyId), response)

\* editPerformancePolicy as it would be if it sent the PUT its comment
\* names.
editPerformancePolicy_sends(self, performancePolicyId, policy) ==
    Effect(self,
           <<Request("PUT",
                     self.systemurl \o "/performance-policies/" \o str(performancePolicyId),
                     self.headers, PyStr(json_dumps_indent(policy, 0)))>>,
           Return(PyStr("not yet implemented")))

\* Alletra6k.editPerformancePolicy: returns a text, calls nothing.
editPerformancePolicy(self, performancePolicyId, policy) ==
    Effect(self, <<>>, Return(PyStr("not yet implemented")))

\* Alletra9k.getVolumes
Alletra9k_getVolumes(self, response) ==
    Subscript(doGet(self, self.url \o "/api/v1/storage-systems/" \o self.systemId \o "/volumes",
                    response),
              "items")

\* Alletra9k.createVolume
createVolume(self, body, response) ==
    doPost(self, self.systemurl \o "/volumes", body, response)

\* Alletra9k.exportVolume
exportVolume(self, volumeId, body, response) ==
    doPost(self, self.systemurl \o "/volumes/" \o str(volumeId) \o "/export", body, response)

\* Alletra9k.editVolume
editVolume(self, volumeId, body, response) ==
    doPut(self, self.systemurl \o "/volumes/" \o str(volumeId), body, response)

\* Alletra9k.createVolumeSnapshot: doPost is called with the url alone, so
\* its body parameter takes the default None.
createVolumeSnapshot(self, volumeId, body, response) ==
    doPost(self, self.systemurl \o "/volumes/" \o str(volumeId) \o "/snapshots", PyNone, response)

\* User.createGroup: the dict is serialized with json.dumps(indent=4) and
\* the resulting str is handed to doPost as the body.
createGroup(self, description, name, response) ==
    LET dict == PyDict(<< <<"description", description>>, <<"name", name>> >>)
        body == PyStr(json_dumps_indent(dict, 0))
    IN  doPost(self, self.url \o "/api/v1/groups/", body, response)

\* User.getSettings, which overrides DSCC.getSettings: the result of doGet
\* as it is.
User_getSettings(self, response) == doGet(self, self.url \o "/api/v1/settings", response)

\* HCI.addCluster
addCluster(self, hciSystemId, clustername, datacenter, configureVds, response) ==
    LET dict == PyDict(<< <<"configureVds", configureVds>>,
                          <<"hypervisorClustername", clustername>>,
                          <<"vsphereDatacenterName", datacenter>> >>)
        body == PyStr(json_dumps_indent(dict, 0))
    IN  doPost(self, self.url \o "/hci-clusters/" \o str(hciSystemId) \o "/hypervisor-clsuters",
               body, response)

RECURSIVE daSearchFrom(_, _, _, _)
\* The loop of daSearch from the i-th item on: d[key] raises KeyError on an
\* item without the key; after the loop the message is built with +, which
\* raises TypeError when value is not a str.
daSearchFrom(key, value, dar, i) ==
    IF i > Len(dar)
    THEN IF value.type # "str"
         THEN Raise([type |-> "TypeError"])
         ELSE Return(PyDict(<< <<"Error",
                  PyStr("Key:Value pair -" \o key \o ":" \o value.val \o " not found in the dataset!")>> >>))
    ELSE IF ~HasKey(dar[i], key)
         THEN Raise([type |-> "KeyError"])
         ELSE IF PyEq(GetItem(dar[i], key), value)
              THEN Return(dar[i])
              ELSE daSearchFrom(key, value, dar, i + 1)

\* DSCC.daSearch; dar is the caller's list after the call.
daSearch(self, key, value, dar) ==
    [self |-> self, sent |-> <<>>, outcome |-> daSearchFrom(key, value, dar, 1), dar |-> dar]

\* ------------------------------------------------------------------ state

VARIABLES
    url,            \* self.url
    access_token,   \* self.access_token
    headers,        \* self.headers
    clientID,       \* self.clientID
    clientSecret,   \* self.clientSecret
    remote,         \* the response the remote service gives to the next request
    issued,         \* the token of the latest successful exchange, <<>> before any
    lastExchange,   \* how the latest exchange ended: "none", "ok" or "failed"
    detached,       \* dicts that were bound to self.headers and were replaced
                    \* while a caller still held them, oldest first
    refresher,      \* the thread inside getAccessToken: its position and locals
    callers,        \* the threads inside a verb operation: position and locals
    class,          \* the class the client object was created from
    systemId,       \* self.systemId of an Alletra6k or Alletra9k object, "" on
                    \* the classes that have no such attribute
    systemurl,      \* self.systemurl, likewise
    previous,       \* the call before the latest one, with its requests and outcome
    instances,      \* two client objects side by side: the attributes of each,
                    \* headers being a reference to a dict
    dicts,          \* the dict objects those references name
    call,           \* the latest call on the client since the remote last changed:
                    \* operation, arguments, replies
    sent,           \* the requests that call issued, in order
    outcome         \* how that call ended

session == <<url, access_token, headers, clientID, clientSecret>>

threads == <<detached, refresher, callers>>

facade == <<class, systemId, systemurl>>

pair == <<instances, dicts>>

vars == <<url, access_token, headers, clientID, clientSecret,
          remote, issued, lastExchange, detached, refresher, callers,
          class, systemId, systemurl, previous, instances, dicts, call, sent, outcome>>

\* The client object as the methods see it.
Self ==
    [url |-> url, access_token |-> access_token, headers |-> headers,
     clientID |-> clientID, clientSecret |-> clientSecret]

\* --------------------------------------------------------------- inputs

\* Absolute urls the facades build from the base url.
Urls == {BaseUrl \o "/api/v1/tasks", BaseUrl \o "/api/v1/settings/7"}

\* Bodies a caller passes: none, the empty object, an object.
Bodies == {PyNone, PyDict(<<>>), PyDict(<< <<"name", PyStr("vol-1")>> >>)}

\* Query strings passed to doSearch, already url-encoded by the caller.
Queries == {"?query=pool-1", "?query=vol%201"}

\* Dictionary items of the collections handed to daSearch.
Items ==
    { PyDict(<< <<"id", PyStr("A")>> >>),
      PyDict(<< <<"id", PyStr("X")>> >>),
      PyDict(<< <<"id", PyStr("X")>>, <<"name", PyStr("second")>> >>),
      PyDict(<< <<"name", PyStr("n")>> >>) }

\* The collections handed to daSearch: every sequence of up to MaxItems items.
Collections == UNION {[1..n -> Items] : n \in 0..MaxItems}

\* Keys and values looked up; one value is not a str.
LookupKeys == {"id", "name"}

LookupValues == {PyStr("X"), PyStr("Z"), PyInt(7)}

\* The lookups made between the calls of a session.
SessionLookups ==
    { <<"id", PyStr("X"), << PyDict(<< <<"id", PyStr("A")>> >>), PyDict(<< <<"id", PyStr("X")>> >>) >> >>,
      <<"id", PyStr("Z"), << PyDict(<< <<"id", PyStr("A")>> >>) >> >> }

\* The threads that call verb operations on the one client object.
Callers == {"caller-1", "caller-2"}

\* ----------------------------------------------------------------- actions

Init ==
    LET self == DSCC_init(BaseUrl, "client-id", "client-secret")
    IN  /\ url = self.url
        /\ access_token = self.access_token
        /\ headers = self.headers
        /\ clientID = self.clientID
        /\ clientSecret = self.clientSecret
        /\ remote \in Responses
        /\ issued = <<>>
        /\ lastExchange = "none"
        /\ detached = <<>>
        /\ refresher = [pc |-> "idle"]
        /\ callers = [c \in Callers |-> [pc |-> "idle"]]
        /\ class = "DSCC"
        /\ systemId = ""
        /\ systemurl = ""
        /\ previous = [call |-> [op |-> "init"], sent |-> <<>>, outcome |-> [kind |-> "none"]]
        /\ instances = <<>>
        /\ dicts = <<>>
        /\ call = [op |-> "init"]
        /\ sent = <<>>
        /\ outcome = [kind |-> "none"]

\* The object, the requests and the outcome after a method has run.
Apply(effect) ==
    /\ url' = effect.self.url
    /\ access_token' = effect.self.access_token
    /\ headers' = effect.self.headers
    /\ clientID' = effect.self.clientID
    /\ clientSecret' = effect.self.clientSecret
    /\ sent' = effect.sent
    /\ outcome' = effect.outcome
    /\ UNCHANGED <<threads, facade, previous, pair>>

\* The remote service's resource changes: it will answer differently.  No
\* call has been made against the changed remote yet.
RemoteChange(response) ==
    /\ remote # response
    /\ remote' = response
    /\ call' = [op |-> "init"]
    /\ sent' = <<>>
    /\ outcome' = [kind |-> "none"]
    /\ UNCHANGED <<session, issued, lastExchange, threads, facade, previous, pair>>

GetAccessToken(reply) ==
    /\ Apply(getAccessToken(Self, reply))
    /\ call' = [op |-> "getAccessToken", reply |-> reply]
    /\ issued' = IF reply.ok THEN <<reply.token>> ELSE issued
    /\ lastExchange' = IF reply.ok THEN "ok" ELSE "failed"
    /\ UNCHANGED remote

DoGet(target) ==
    /\ Apply(doGet(Self, target, remote))
    /\ call' = [op |-> "doGet", url |-> target, response |-> remote]
    /\ UNCHANGED <<remote, issued, lastExchange>>

DoPost(target, body) ==
    /\ Apply(doPost(Self, target, body, remote))
    /\ call' = [op |-> "doPost", url |-> target, body |-> body, response |-> remote]
    /\ UNCHANGED <<remote, issued, lastExchange>>

DoDelete(target) ==
    /\ Apply(doDelete(Self, target, remote))
    /\ call' = [op |-> "doDelete", url |-> target, response |-> remote]
    /\ UNCHANGED <<remote, issued, lastExchange>>

DoPatch(target, body) ==
    /\ Apply(doPatch(Self, target, body, remote))
    /\ call' = [op |-> "doPatch", url |-> target, body |-> body, response |-> remote]
    /\ UNCHANGED <<remote, issued, lastExchange>>

DoPut(target, body) ==
    /\ Apply(doPut(Self, target, body, remote))
    /\ call' = [op |-> "doPut", url |-> target, body |-> body, response |-> remote]
    /\ UNCHANGED <<remote, issued, lastExchange>>

DoSearch(query) ==
    /\ Apply(doSearch(Self, query, remote))
    /\ call' = [op |-> "doSearch", query |-> query, response |-> remote]
    /\ UNCHANGED <<remote, issued, lastExchange>>

GetSettings ==
    /\ Apply(getSettings(Self, remote))
    /\ call' = [op |-> "getSettings", response |-> remote]
    /\ UNCHANGED <<remote, issued, lastExchange>>

GetStorageSystems ==
    /\ Apply(getStorageSystems(Self, remote))
    /\ call' = [op |-> "getStorageSystems", response |-> remote]
    /\ UNCHANGED <<remote, issued, lastExchange>>

DaSearch(key, value, dar) ==
    /\ Apply(daSearch(Self, key, value, dar))
    /\ call' = [op |-> "daSearch", key |-> key, value |-> value, dar |-> dar,
                darAfter |-> daSearch(Self, key, value, dar).dar]
    /\ UNCHANGED <<remote, issued, lastExchange>>

Next ==
    \/ \E response \in Responses : RemoteChange(response)
    \/ \E reply \in TokenReplies : GetAccessToken(reply)
    \/ \E target \in Urls : DoGet(target)
    \/ \E target \in Urls, body \in Bodies : DoPost(target, body)
    \/ \E target \in Urls : DoDelete(target)
    \/ \E target \in Urls, body \in Bodies : DoPatch(target, body)
    \/ \E target \in Urls, body \in Bodies : DoPut(target, body)
    \/ \E query \in Queries : DoSearch(query)
    \/ \E lookup \in SessionLookups : DaSearch(lookup[1], lookup[2], lookup[3])
    \/ GetSettings
    \/ GetStorageSystems

Spec == Init /\ [][Next]_vars

\* daSearch alone, over every key, value and collection.
LookupNext ==
    \E key \in LookupKeys, value \in LookupValues, dar \in Collections :
        DaSearch(key, value, dar)

LookupSpec == Init /\ [][LookupNext]_vars

\* ------------------------------------------------------- concurrent callers

\* self.headers written entry by entry into the dict that is already bound,
\* as it would be if getAccessToken updated the headers in place.
headerStores_itemwise(old, built) ==
    << [rebind |-> FALSE, map |-> SetHeader(old, "Authorization", built["Authorization"])],
       [rebind |-> FALSE,
        map |-> SetHeader(SetHeader(old, "Authorization", built["Authorization"]),
                          "Accept", built["Accept"])] >>

\* self.headers = {...} in getAccessToken, as the stores other threads can
\* see, in order: the dict display is built whole and then bound to the
\* attribute in one store, which replaces the dict object (rebind).
headerStores(old, built) == << [rebind |-> TRUE, map |-> built] >>

\* The dict a caller's local `headers` names: 0 is the dict bound to
\* self.headers now, k > 0 the k-th replaced dict.
DictAt(alias) == IF alias = 0 THEN headers ELSE detached[alias]

\* A caller enters doGet or doPost and reads self.headers: it now holds the
\* dict object that is bound to the attribute at this moment.
CallerLoad(c, op, target, body) ==
    /\ callers[c].pc = "idle"
    /\ callers' = [callers EXCEPT ![c] =
                      [pc |-> "loaded", op |-> op, url |-> target, body |-> body, alias |-> 0]]
    /\ UNCHANGED <<session, remote, issued, lastExchange, detached, refresher, call, sent, outcome>>
    /\ UNCHANGED <<facade, previous, pair>>

\* headers['Content-Type'] = 'application/json' in doPost, on the dict the
\* caller holds.
CallerWrite(c) ==
    /\ callers[c].pc = "loaded"
    /\ callers[c].op = "doPost"
    /\ truthy(callers[c].body)
    /\ LET written == SetHeader(DictAt(callers[c].alias), "Content-Type", "application/json")
       IN  IF callers[c].alias = 0
           THEN headers' = written /\ UNCHANGED detached
           ELSE detached' = [detached EXCEPT ![callers[c].alias] = written] /\ UNCHANGED headers
    /\ callers' = [callers EXCEPT ![c].pc = "written"]
    /\ UNCHANGED <<url, access_token, clientID, clientSecret, remote, issued, lastExchange,
                   refresher, call, sent, outcome>>
    /\ UNCHANGED <<facade, previous, pair>>

\* The caller's request goes out with the contents of the dict it holds,
\* and the call ends.
CallerSend(c) ==
    /\ \/ callers[c].pc = "written"
       \/ callers[c].pc = "loaded" /\ ~(callers[c].op = "doPost" /\ truthy(callers[c].body))
    /\ LET self == [Self EXCEPT !.headers = DictAt(callers[c].alias)]
           effect == IF callers[c].op = "doGet"
                     THEN doGet(self, callers[c].url, remote)
                     ELSE doPost(self, callers[c].url, callers[c].body, remote)
       IN  /\ sent' = effect.sent
           /\ outcome' = effect.outcome
    /\ call' = [op |-> callers[c].op, url |-> callers[c].url, body |-> callers[c].body,
                response |-> remote, caller |-> c, alias |-> callers[c].alias]
    /\ callers' = [callers EXCEPT ![c] = [pc |-> "idle"]]
    /\ UNCHANGED <<session, remote, issued, lastExchange, detached, refresher>>
    /\ UNCHANGED <<facade, previous, pair>>

\* getAccessToken up to the assignment of self.access_token: the exchange;
\* a failed one ends the call there.
RefreshFetch(reply) ==
    /\ refresher.pc = "idle"
    /\ Len(detached) < MaxRefreshes
    /\ LET effect == getAccessToken(Self, reply)
       IN  IF effect.outcome.kind = "raise"
           THEN UNCHANGED <<access_token, refresher, issued>>
           ELSE /\ access_token' = effect.self.access_token
                /\ issued' = <<reply.token>>
                /\ refresher' = [pc |-> "storing", next |-> 1,
                                 stores |-> headerStores(headers, effect.self.headers)]
    /\ lastExchange' = IF reply.ok THEN "ok" ELSE "failed"
    /\ UNCHANGED <<url, headers, clientID, clientSecret, remote, detached, callers,
                   call, sent, outcome>>
    /\ UNCHANGED <<facade, previous, pair>>

\* The next store of self.headers = {...}.  Rebinding the attribute leaves
\* the replaced dict to the callers that hold it.
RefreshStore ==
    /\ refresher.pc = "storing"
    /\ LET store == refresher.stores[refresher.next]
       IN  /\ headers' = store.map
           /\ IF store.rebind
              THEN /\ detached' = Append(detached, headers)
                   /\ callers' = [c \in DOMAIN callers |->
                                     IF callers[c].pc # "idle" /\ callers[c].alias = 0
                                     THEN [callers[c] EXCEPT !.alias = Len(detached) + 1]
                                     ELSE callers[c]]
              ELSE UNCHANGED <<detached, callers>>
    /\ refresher' = IF refresher.next = Len(refresher.stores)
                    THEN [pc |-> "idle"]
                    ELSE [refresher EXCEPT !.next = @ + 1]
    /\ UNCHANGED <<url, access_token, clientID, clientSecret, remote, issued, lastExchange,
                   call, sent, outcome>>
    /\ UNCHANGED <<facade, previous, pair>>

\* One client object shared by the callers and the refreshing thread; the
\* remote answers 200 with a task throughout.
ConcInit ==
    /\ Init
    /\ remote = [status_code |-> 200, text |-> json_dumps(PyDict(<< <<"id", PyStr("task-1")>> >>))]

\* What the concurrent callers ask for: a read, and a write with a body.
ConcUrl == BaseUrl \o "/api/v1/tasks"

ConcBody == PyDict(<< <<"name", PyStr("vol-1")>> >>)

ConcNext ==
    \/ \E c \in DOMAIN callers : CallerLoad(c, "doGet", ConcUrl, PyNone)
    \/ \E c \in DOMAIN callers : CallerLoad(c, "doPost", ConcUrl, ConcBody)
    \/ \E c \in DOMAIN callers : CallerWrite(c)
    \/ \E c \in DOMAIN callers : CallerSend(c)
    \/ \E reply \in TokenReplies : RefreshFetch(reply)
    \/ RefreshStore

ConcSpec == ConcInit /\ [][ConcNext]_vars

\* ------------------------------------------------------- a facade object

\* The classes the facade object is created from.
FacadeClasses == {"Alletra6k", "Alletra9k", "User", "HCI"}

\* System identifiers handed to the constructors: a serial number, a number.
SystemIds == {PyStr("SGH029VBDX"), PyInt(7)}

\* Identifiers of sub-resources handed to the facade operations.
ResourceIds == {PyInt(3)}

\* Bodies handed to the facade operations: an object, the empty object.
FacadeBodies == {PyDict(<< <<"name", PyStr("vol-1")>> >>), PyDict(<<>>)}

\* What the remote answers during the life of the facade object.
FacadeResponses ==
    { [status_code |-> 200,
       text |-> json_dumps(PyDict(<< <<"items", PyList(<< PyDict(<< <<"name", PyStr("pool-1")>> >>) >>)>> >>))],
      [status_code |-> 200, text |-> json_dumps(PyDict(<< <<"id", PyStr("task-1")>> >>))],
      [status_code |-> 401, text |-> "<html>Bad Gateway</html>"] }

\* The facade object as its methods see it.
FacadeSelf ==
    [url |-> url, access_token |-> access_token, headers |-> headers,
     clientID |-> clientID, clientSecret |-> clientSecret,
     systemId |-> systemId, systemurl |-> systemurl]

\* The object of class c right after its constructor has run.
Construct(c, sysId) ==
    CASE c = "Alletra6k" -> Alletra6k_init(BaseUrl, "client-id", "client-secret", sysId)
      [] c = "Alletra9k" -> Alletra9k_init(BaseUrl, "client-id", "client-secret", sysId)
      [] OTHER -> Plain_init(BaseUrl, "client-id", "client-secret")

FacadeInit ==
    \E c \in FacadeClasses, sysId \in SystemIds :
        LET self == Construct(c, sysId)
        IN  /\ class = c
            /\ url = self.url
            /\ access_token = self.access_token
            /\ headers = self.headers
            /\ clientID = self.clientID
            /\ clientSecret = self.clientSecret
            /\ systemId = self.systemId
            /\ systemurl = self.systemurl
            /\ remote \in FacadeResponses
            /\ issued = <<>>
            /\ lastExchange = "none"
            /\ detached = <<>>
            /\ refresher = [pc |-> "idle"]
            /\ callers = [k \in Callers |-> [pc |-> "idle"]]
            /\ previous = [call |-> [op |-> "init"], sent |-> <<>>, outcome |-> [kind |-> "none"]]
            /\ instances = <<>>
            /\ dicts = <<>>
            /\ call = [op |-> "init"]
            /\ sent = <<>>
            /\ outcome = [kind |-> "none"]

\* A method of the facade object has run: the object, the requests and the
\* outcome after it; the call before it is kept for comparison.
Invoke(effect, record) ==
    /\ url' = effect.self.url
    /\ access_token' = effect.self.access_token
    /\ headers' = effect.self.headers
    /\ clientID' = effect.self.clientID
    /\ clientSecret' = effect.self.clientSecret
    /\ systemId' = effect.self.systemId
    /\ systemurl' = effect.self.systemurl
    /\ sent' = effect.sent
    /\ outcome' = effect.outcome
    /\ call' = record
    /\ previous' = [call |-> call, sent |-> sent, outcome |-> outcome]
    /\ UNCHANGED <<class, remote, threads, pair>>

Facade_GetAccessToken(reply) ==
    /\ Invoke(getAccessToken(FacadeSelf, reply), [op |-> "getAccessToken", reply |-> reply])
    /\ issued' = IF reply.ok THEN <<reply.token>> ELSE issued
    /\ lastExchange' = IF reply.ok THEN "ok" ELSE "failed"

Facade_DoGet(target) ==
    /\ Invoke(doGet(FacadeSelf, target, remote),
              [op |-> "doGet", url |-> target, response |-> remote])
    /\ UNCHANGED <<issued, lastExchange>>

\* getSettings on the facade object: User defines its own, the other
\* classes inherit DSCC.getSettings.
Facade_GetSettings ==
    /\ Invoke(IF class = "User" THEN User_getSettings(FacadeSelf, remote)
                                ELSE getSettings(FacadeSelf, remote),
              [op |-> "getSettings", response |-> remote])
    /\ UNCHANGED <<issued, lastExchange>>

GetSystem ==
    /\ class = "Alletra6k"
    /\ Invoke(getSystem(FacadeSelf, remote), [op |-> "getSystem", response |-> remote])
    /\ UNCHANGED <<issued, lastExchange>>

GetNicDetails(networkInterfaceId) ==
    /\ class = "Alletra6k"
    /\ Invoke(getNicDetails(FacadeSelf, networkInterfaceId, remote),
              [op |-> "getNicDetails", id |-> networkInterfaceId, response |-> remote])
    /\ UNCHANGED <<issued, lastExchange>>

Alletra6k_GetVolumes ==
    /\ class = "Alletra6k"
    /\ Invoke(Alletra6k_getVolumes(FacadeSelf, remote), [op |-> "getVolumes", response |-> remote])
    /\ UNCHANGED <<issued, lastExchange>>

CreateStoragePool(body) ==
    /\ class = "Alletra6k"
    /\ Invoke(createStoragePool(FacadeSelf, body, remote),
              [op |-> "createStoragePool", body |-> body, response |-> remote])
    /\ UNCHANGED <<issued, lastExchange>>

EditSystem(body) ==
    /\ class = "Alletra6k"
    /\ Invoke(editSystem(FacadeSelf, body, remote),
              [op |-> "editSystem", body |-> body, response |-> remote])
    /\ UNCHANGED <<issued, lastExchange>>

DeletePerformancePolicy(performancePolicyId) ==
    /\ class = "Alletra6k"
    /\ Invoke(deletePerformancePolicy(FacadeSelf, performancePolicyId, remote),
              [op |-> "deletePerformancePolicy", id |-> performancePolicyId, response |-> remote])
    /\ UNCHANGED <<issued, lastExchange>>

EditPerformancePolicy(performancePolicyId, policy) ==
    /\ class = "Alletra6k"
    /\ Invoke(editPerformancePolicy(FacadeSelf, performancePolicyId, policy),
              [op |-> "editPerformancePolicy", id |-> performancePolicyId, body |-> policy,
               response |-> remote])
    /\ UNCHANGED <<issued, lastExchange>>

Alletra9k_GetVolumes ==
    /\ class = "Alletra9k"
    /\ Invoke(Alletra9k_getVolumes(FacadeSelf, remote), [op |-> "getVolumes", response |-> remote])
    /\ UNCHANGED <<issued, lastExchange>>

CreateVolume(body) ==
    /\ class = "Alletra9k"
    /\ Invoke(createVolume(FacadeSelf, body, remote),
              [op |-> "createVolume", body |-> body, response |-> remote])
    /\ UNCHANGED <<issued, lastExchange>>

ExportVolume(volumeId, body) ==
    /\ class = "Alletra9k"
    /\ Invoke(exportVolume(FacadeSelf, volumeId, body, remote),
              [op |-> "exportVolume", id |-> volumeId, body |-> body, response |-> remote])
    /\ UNCHANGED <<issued, lastExchange>>

EditVolume(volumeId, body) ==
    /\ class = "Alletra9k"
    /\ Invoke(editVolume(FacadeSelf, volumeId, body, remote),
              [op |-> "editVolume", id |-> volumeId, body |-> body, response |-> remote])
    /\ UNCHANGED <<issued, lastExchange>>

CreateVolumeSnapshot(volumeId, body) ==
    /\ class = "Alletra9k"
    /\ Invoke(createVolumeSnapshot(FacadeSelf, volumeId, body, remote),
              [op |-> "createVolumeSnapshot", id |-> volumeId, body |-> body, response |-> remote])
    /\ UNCHANGED <<issued, lastExchange>>

CreateGroup(description, name) ==
    /\ class = "User"
    /\ Invoke(createGroup(FacadeSelf, description, name, remote),
              [op |-> "createGroup", description |-> description, name |-> name,
               response |-> remote])
    /\ UNCHANGED <<issued, lastExchange>>

AddCluster(hciSystemId, clustername, datacenter, configureVds) ==
    /\ class = "HCI"
    /\ Invoke(addCluster(FacadeSelf, hciSystemId, clustername, datacenter, configureVds, remote),
              [op |-> "addCluster", id |-> hciSystemId, clustername |-> clustername,
               datacenter |-> datacenter, configureVds |-> configureVds, response |-> remote])
    /\ UNCHANGED <<issued, lastExchange>>

FacadeNext ==
    \/ \E reply \in TokenReplies : Facade_GetAccessToken(reply)
    \/ Facade_DoGet(BaseUrl \o "/api/v1/tasks")
    \/ Facade_GetSettings
    \/ GetSystem
    \/ \E id \in ResourceIds : GetNicDetails(id)
    \/ Alletra6k_GetVolumes
    \/ \E body \in FacadeBodies : CreateStoragePool(body)
    \/ \E body \in FacadeBodies : EditSystem(body)
    \/ \E id \in ResourceIds : DeletePerformancePolicy(id)
    \/ \E id \in ResourceIds, policy \in FacadeBodies : EditPerformancePolicy(id, policy)
    \/ Alletra9k_GetVolumes
    \/ \E body \in FacadeBodies : CreateVolume(body)
    \/ \E id \in ResourceIds, body \in FacadeBodies : ExportVolume(id, body)
    \/ \E id \in ResourceIds, body \in FacadeBodies : EditVolume(id, body)
    \/ \E id \in ResourceIds, body \in FacadeBodies : CreateVolumeSnapshot(id, body)
    \/ CreateGroup(PyStr("storage admins"), PyStr("admins"))
    \/ \E configureVds \in {PyBool(TRUE), PyBool(FALSE)} :
           AddCluster(PyInt(3), PyStr("cluster-1"), PyStr("dc-1"), configureVds)

FacadeSpec == FacadeInit /\ [][FacadeNext]_vars

\* ---------------------------------------------------- two client objects

\* The two client objects, created with the same url and credentials.
Objects == {"A", "B"}

\* Names for the dict objects: each client object refers to one, and one
\* more is there for the next dict display to become.
DictRefs == {"dict-1", "dict-2", "dict-3"}

\* A dict display as it would be if it stood in the class body: one dict
\* object, made once, that every evaluation names.
newDict_classLevel(used) == CHOOSE r \in DictRefs : TRUE

\* A dict display ({} in __init__, {...} in getAccessToken) evaluated in a
\* method: a new dict object, one that no reference in use names.
newDict(used) == CHOOSE r \in DictRefs : r \notin used

\* The dicts that self.headers of some client object names.
InUse(objs) == {objs[o].headers : o \in DOMAIN objs}

\* The dict objects with those that nothing names any more emptied.
Collect(heap, objs) ==
    [r \in DictRefs |-> IF r \in InUse(objs) THEN heap[r] ELSE [k \in {} |-> ""]]

\* A client object as its methods see it: self.headers is the dict that
\* the reference names.
Deref(o) == [instances[o] EXCEPT !.headers = dicts[instances[o].headers]]

\* Both constructors have run, A's first.
PairInit ==
    LET made == DSCC_init(BaseUrl, "client-id", "client-secret")
        refA == newDict({})
        refB == newDict({refA})
    IN  /\ url = made.url
        /\ access_token = made.access_token
        /\ headers = made.headers
        /\ clientID = made.clientID
        /\ clientSecret = made.clientSecret
        /\ remote \in FacadeResponses
        /\ issued = <<>>
        /\ lastExchange = "none"
        /\ detached = <<>>
        /\ refresher = [pc |-> "idle"]
        /\ callers = [k \in Callers |-> [pc |-> "idle"]]
        /\ class = "DSCC"
        /\ systemId = ""
        /\ systemurl = ""
        /\ previous = [call |-> [op |-> "init"], sent |-> <<>>, outcome |-> [kind |-> "none"]]
        /\ instances = [o \in Objects |->
                           [made EXCEPT !.headers = IF o = "A" THEN refA ELSE refB]]
        /\ dicts = [r \in DictRefs |-> made.headers]
        /\ call = [op |-> "init"]
        /\ sent = <<>>
        /\ outcome = [kind |-> "none"]

\* getAccessToken on the object o: a successful exchange binds
\* self.headers to a new dict; a failed one leaves the object alone.
On_GetAccessToken(o, reply) ==
    LET effect == getAccessToken(Deref(o), reply)
        ref == newDict(InUse(instances))
        objs == [instances EXCEPT ![o] = [effect.self EXCEPT !.headers = ref]]
    IN  /\ IF effect.outcome.kind = "raise"
           THEN UNCHANGED <<instances, dicts>>
           ELSE /\ instances' = objs
                /\ dicts' = Collect([dicts EXCEPT ![ref] = effect.self.headers], objs)
        /\ sent' = effect.sent
        /\ outcome' = effect.outcome
        /\ call' = [op |-> "getAccessToken", on |-> o, reply |-> reply]
        /\ UNCHANGED <<session, remote, issued, lastExchange, threads, facade, previous>>

\* A verb operation on the object o: what it writes to its headers goes
\* into the dict that self.headers names.
OnVerb(o, effect) ==
    /\ dicts' = [dicts EXCEPT ![instances[o].headers] = effect.self.headers]
    /\ instances' = [instances EXCEPT ![o] =
                        [effect.self EXCEPT !.headers = instances[o].headers]]
    /\ sent' = effect.sent
    /\ outcome' = effect.outcome
    /\ UNCHANGED <<session, remote, issued, lastExchange, threads, facade, previous>>

On_DoGet(o, target) ==
    /\ OnVerb(o, doGet(Deref(o), target, remote))
    /\ call' = [op |-> "doGet", on |-> o, url |-> target, response |-> remote]

On_DoPost(o, target, body) ==
    /\ OnVerb(o, doPost(Deref(o), target, body, remote))
    /\ call' = [op |-> "doPost", on |-> o, url |-> target, body |-> body, response |-> remote]

PairNext ==
    \/ \E o \in Objects, reply \in TokenReplies : On_GetAccessToken(o, reply)
    \/ \E o \in Objects : On_DoGet(o, ConcUrl)
    \/ \E o \in Objects, body \in Bodies : On_DoPost(o, ConcUrl, body)

PairSpec == PairInit /\ [][PairNext]_vars

\* ------------------------------------------------------------------ claims

\* The five verb operations, and those of them that take a body.
TransportOps == {"doGet", "doPost", "doPatch", "doPut", "doDelete"}

WriteOps == {"doPost", "doPatch", "doPut", "doDelete"}

BodyOps == {"doPost", "doPatch", "doPut"}

\* The outcome is a DsccError raised with this location and status.
RaisedDsccError(location, status) ==
    /\ outcome.kind = "raise"
    /\ outcome.exc.type = "DsccError"
    /\ outcome.exc.expression = location
    /\ outcome.exc.status = status

\* C1: doGet returns the parsed response body if and only if the status is
\* 200 (the body being JSON); for every other status, 201 and 202 included,
\* it returns nothing and raises a DsccError whose location is "doGet "
\* followed by the requested url.
C1_doGetContract ==
    call.op = "doGet" =>
        /\ (outcome.kind = "return" => call.response.status_code = 200)
        /\ (call.response.status_code = 200 /\ IsJson(call.response.text)
                => outcome = Return(json_loads(call.response.text)))
        /\ (call.response.status_code # 200
                => RaisedDsccError("doGet " \o call.url, call.response.status_code))

C1_Witness ==
    /\ call.op = "doGet"
    /\ call.response.status_code = 202
    /\ RaisedDsccError("doGet " \o call.url, 202)

\* C2: doPost, doPatch, doPut and doDelete return the parsed response body
\* exactly when the status is 200, 201 or 202 (the body being JSON) and
\* raise a DsccError for every other status, with or without a request body.
C2_WriteContract ==
    call.op \in WriteOps =>
        /\ (outcome.kind = "return" => call.response.status_code \in {200, 201, 202})
        /\ (call.response.status_code \in {200, 201, 202} /\ IsJson(call.response.text)
                => outcome = Return(json_loads(call.response.text)))
        /\ (call.response.status_code \notin {200, 201, 202}
                => /\ outcome.kind = "raise"
                   /\ outcome.exc.type = "DsccError"
                   /\ outcome.exc.status = call.response.status_code)

C2_Witness ==
    /\ call.op = "doPatch"
    /\ truthy(call.body)
    /\ call.response.status_code = 202
    /\ IsJson(call.response.text)
    /\ outcome = Return(json_loads(call.response.text))

\* C3: the DsccError raised by doPost, doPatch, doPut or doDelete carries a
\* location made of that operation's own tag and the requested url.
C3_OwnVerbTag ==
    (call.op \in WriteOps /\ outcome.kind = "raise" /\ outcome.exc.type = "DsccError")
        => outcome.exc.expression = call.op \o " " \o call.url

\* C4: every request of a verb operation that is sent without a body carries
\* no Content-Type header.
C4_NoContentTypeWithoutBody ==
    call.op \in TransportOps =>
        \A i \in 1..Len(sent) :
            sent[i].data = PyNone => "Content-Type" \notin DOMAIN sent[i].headers

\* C5: no verb operation changes the session: headers, access_token, url,
\* clientID and clientSecret are the same after the call as before it.
C5_TransportKeepsSession ==
    [][call'.op \in TransportOps => UNCHANGED session]_vars

\* C6: doPost, doPatch and doPut called without a body send no payload and
\* no Content-Type, and called with the empty object send the payload "{}"
\* with Content-Type: application/json.
C6_EmptyObjectIsABody ==
    call.op \in BodyOps =>
        /\ (call.body = PyNone
                => /\ sent[1].data = PyNone
                   /\ "Content-Type" \notin DOMAIN sent[1].headers)
        /\ (call.body = PyDict(<<>>)
                => /\ sent[1].data = PyStr("{}")
                   /\ "Content-Type" \in DOMAIN sent[1].headers
                   /\ sent[1].headers["Content-Type"] = "application/json")

\* C7: a getAccessToken whose token exchange fails ends with an error and
\* leaves the headers map exactly as it was before the call.
C7_FailedExchangeKeepsHeaders ==
    [][(call'.op = "getAccessToken" /\ ~call'.reply.ok)
            => (headers' = headers /\ outcome'.kind = "raise")]_vars

C7_Witness ==
    /\ call.op = "getAccessToken"
    /\ ~call.reply.ok
    /\ outcome.kind = "raise"
    /\ "Authorization" \in DOMAIN headers

\* C8: after a successful getAccessToken that obtained token t the headers
\* map is exactly {Authorization: "Bearer " + t, Accept: "application/json"},
\* t is not empty, and no other entry (no Content-Type) is left.
C8_FreshHeadersAfterExchange ==
    (call.op = "getAccessToken" /\ call.reply.ok) =>
        /\ call.reply.token # ""
        /\ DOMAIN headers = {"Authorization", "Accept"}
        /\ headers["Authorization"] = "Bearer " \o call.reply.token
        /\ headers["Accept"] = "application/json"

C8_Witness ==
    /\ call.op = "getAccessToken"
    /\ call.reply.ok
    /\ outcome = Return(PyNone)
    /\ headers = [Authorization |-> "Bearer " \o call.reply.token, Accept |-> "application/json"]

\* C9: the headers map has an Authorization entry only if some exchange has
\* succeeded, and then its value is "Bearer " plus the token of the latest
\* successful exchange.
C9_AuthorizationFromLatestExchange ==
    /\ issued = <<>> => "Authorization" \notin DOMAIN headers
    /\ "Authorization" \in DOMAIN headers
            => (issued # <<>> /\ headers["Authorization"] = "Bearer " \o issued[1])

C9_Witness ==
    /\ call.op = "doPost"
    /\ "Content-Type" \in DOMAIN headers
    /\ issued # <<>>
    /\ headers["Authorization"] = "Bearer " \o issued[1]

\* C10: doSearch(q) issues one GET to base url + "/search" with q appended
\* unmodified, and returns the items of a 200 answer {"items": L}.
C10_SearchContract ==
    call.op = "doSearch" =>
        /\ Len(sent) = 1
        /\ sent[1].method = "GET"
        /\ sent[1].url = url \o "/search" \o call.query
        /\ (/\ call.response.status_code = 200
            /\ IsJson(call.response.text)
            /\ HasKey(json_loads(call.response.text), "items"))
                => outcome = Return(GetItem(json_loads(call.response.text), "items"))

\* The items of the latest daSearch's collection whose field key equals value.
Matches ==
    {i \in 1..Len(call.dar) :
        HasKey(call.dar[i], call.key) /\ PyEq(GetItem(call.dar[i], call.key), call.value)}

\* C11: when some item of the collection has item[key] = value, daSearch
\* returns the matching item of lowest index and leaves the collection
\* unchanged.
C11_FirstMatch ==
    (call.op = "daSearch" /\ Matches # {}) =>
        /\ outcome = Return(call.dar[CHOOSE i \in Matches : \A j \in Matches : i <= j])
        /\ call.darAfter = call.dar

\* C12: when no item has item[key] = value (empty collection, items without
\* the key and values of any type included), daSearch returns an
\* error-shaped record, a dict whose only key is "Error", as a normal value
\* and never raises.
C12_SoftNotFound ==
    (call.op = "daSearch" /\ Matches = {}) =>
        /\ outcome.kind = "return"
        /\ outcome.value.type = "dict"
        /\ Len(outcome.value.items) = 1
        /\ outcome.value.items[1][1] = "Error"

\* C13: every call of doGet, doPost, doPatch, doPut, doDelete or doSearch
\* ends either by returning a value or by raising a DsccError; there is no
\* third kind of outcome.
C13_ReturnOrDsccError ==
    call.op \in TransportOps \cup {"doSearch"} =>
        \/ outcome.kind = "return"
        \/ (outcome.kind = "raise" /\ outcome.exc.type = "DsccError")

\* The HTTP method each verb operation uses.
MethodOf(op) ==
    CASE op = "doGet" -> "GET"
      [] op = "doPost" -> "POST"
      [] op = "doPatch" -> "PATCH"
      [] op = "doPut" -> "PUT"
      [] op = "doDelete" -> "DELETE"

\* C14: each call of a verb operation issues exactly one outbound request,
\* to the requested url with the operation's method, whatever the status;
\* a refused status (401 included) leads to no second request and to no
\* token request.
C14_OneRequestPerCall ==
    call.op \in TransportOps =>
        /\ Len(sent) = 1
        /\ sent[1].method = MethodOf(call.op)
        /\ sent[1].url = call.url
        /\ sent[1].url # TokenUrl

C14_Witness ==
    /\ call.op = "doDelete"
    /\ call.response.status_code = 401
    /\ outcome.kind = "raise"
    /\ Len(sent) = 1

\* The Authorization entry of a headers map, <<>> if it has none.
AuthorizationOf(h) == IF "Authorization" \in DOMAIN h THEN <<h["Authorization"]>> ELSE <<>>

\* C15: the stored access token and the Authorization header change only in
\* a getAccessToken call: every other operation leaves both as they were,
\* sends its requests with the token of the latest successful exchange, and
\* issues no token request.
C15_TokenChangesOnlyByExchange ==
    [][call'.op # "getAccessToken" =>
          /\ access_token' = access_token
          /\ AuthorizationOf(headers') = AuthorizationOf(headers)
          /\ \A i \in 1..Len(sent') :
                /\ sent'[i].url # TokenUrl
                /\ AuthorizationOf(sent'[i].headers) =
                      (IF issued = <<>> THEN <<>> ELSE <<"Bearer " \o issued[1]>>)]_vars

C15_Witness ==
    /\ call.op = "doGet"
    /\ call.response.status_code = 401
    /\ issued # <<>>
    /\ access_token = PyDict(<< <<"access_token", PyStr(issued[1])>>, <<"token_type", PyStr("Bearer")>> >>)
    /\ sent[1].headers["Authorization"] = "Bearer " \o issued[1]

C18_ItemsOrKeyError ==
    (/\ call.op \in {"getSettings", "getStorageSystems"}
     /\ call.response.status_code = 200
     /\ IsJson(call.response.text)) =>
        IF HasKey(json_loads(call.response.text), "items")
        THEN outcome = Return(GetItem(json_loads(call.response.text), "items"))
        ELSE outcome.kind = "raise" /\ outcome.exc.type = "KeyError"

C18_Witness ==
    /\ call.op = "getSettings"
    /\ call.response.status_code = 200
    /\ IsJson(call.response.text)
    /\ ~HasKey(json_loads(call.response.text), "items")
    /\ outcome = Raise([type |-> "KeyError"])

C20_PatchPutAsPost ==
    call.op \in {"doPatch", "doPut"} =>
        LET post == doPost(Self, call.url, call.body, call.response)
        IN  /\ outcome = post.outcome
            /\ Self = post.self
            /\ sent[1].headers = post.sent[1].headers
            /\ (sent[1].data = PyNone) <=> (post.sent[1].data = PyNone)

C20_Witness ==
    /\ call.op = "doPut"
    /\ truthy(call.body)
    /\ call.response.status_code = 202
    /\ outcome.kind = "return"
    /\ sent[1].data # PyNone
    /\ "Content-Type" \in DOMAIN sent[1].headers

\* The Authorization and Accept entries of a headers map.
AuthPart(h) == [k \in (DOMAIN h) \cap {"Authorization", "Accept"} |-> h[k]]

\* The complete Authorization/Accept maps a session can hold: none before
\* the first exchange, both entries for one token after an exchange.
CompleteMaps ==
    {[k \in {} |-> ""]}
    \cup {[Authorization |-> "Bearer " \o t, Accept |-> "application/json"] : t \in Tokens}

\* C17: with getAccessToken running beside the verb operations of other
\* callers, every request sent carries a complete map, the one before or
\* the one after the refresh: never an Authorization without Accept, never
\* an Authorization before any exchange has succeeded.
C17_NoPartialHeaders ==
    \A i \in 1..Len(sent) :
        /\ AuthPart(sent[i].headers) \in CompleteMaps
        /\ issued = <<>> => AuthPart(sent[i].headers) = [k \in {} |-> ""]
        /\ AuthPart(sent[i].headers) \in
              {AuthPart(headers)} \cup {AuthPart(detached[k]) : k \in 1..Len(detached)}

\* A request sent from the replaced dict after the refresh has bound the new
\* one: it carries the whole pre-refresh map.
C17_Witness ==
    /\ call.op = "doPost"
    /\ call.alias > 0
    /\ Len(sent) = 1
    /\ "Authorization" \in DOMAIN sent[1].headers
    /\ AuthPart(sent[1].headers) = AuthPart(detached[call.alias])
    /\ AuthPart(sent[1].headers) # AuthPart(headers)

\* C21: the same doGet(url) issued twice in a row on one client object,
\* against a remote that answers the same, ends the same way both times
\* (the same parsed body, or a DsccError with the same location and status)
\* and sends the same request, url and headers, both times.
C21_GetIdempotent ==
    (/\ call.op = "doGet"
     /\ previous.call.op = "doGet"
     /\ call.url = previous.call.url
     /\ call.response = previous.call.response)
        => /\ outcome = previous.outcome
           /\ sent = previous.sent

\* A doGet was repeated with a token in place and refused with 401 both times.
C21_Witness ==
    /\ call.op = "doGet"
    /\ previous.call.op = "doGet"
    /\ call.url = previous.call.url
    /\ outcome.kind = "raise"
    /\ outcome.exc.status = 401
    /\ Len(sent) = 1
    /\ "Authorization" \in DOMAIN sent[1].headers

\* The facade operations that take a structured body or parameter from the
\* caller.
FacadeBodyOps ==
    {"createStoragePool", "editSystem", "editPerformancePolicy",
     "createVolume", "exportVolume", "editVolume", "createVolumeSnapshot"}

\* The JSON texts that decode to the value v: the compact and the indented
\* serialization.
Serializations(v) == {PyStr(json_dumps(v)), PyStr(json_dumps_indent(v, 0))}

\* C22: every facade operation that takes a body from the caller sends one
\* request whose payload is that body.
C22_BodyForwarded ==
    call.op \in FacadeBodyOps =>
        /\ Len(sent) = 1
        /\ sent[1].data \in Serializations(call.body)

\* Whether a url lies in the scope of the device-family object: its
\* systemurl, followed by nothing or by "/" and a sub-path.
InScope(target) ==
    \/ target = systemurl
    \/ /\ Len(target) > Len(systemurl) + 1
       /\ SubSeq(target, 1, Len(systemurl) + 1) = systemurl \o "/"

\* The operations the device-family classes define.
DeviceOps ==
    {"getSystem", "getNicDetails", "getVolumes", "createStoragePool", "editSystem",
     "deletePerformancePolicy", "editPerformancePolicy",
     "createVolume", "exportVolume", "editVolume", "createVolumeSnapshot"}

\* base + "/api/v1/storage-systems/device-type{N}/" + systemId for the class.
DeviceScope ==
    url \o "/api/v1/storage-systems/device-type"
        \o (IF class = "Alletra6k" THEN "2" ELSE "1") \o "/" \o systemId

\* C23: every request of an operation of Alletra6k or Alletra9k goes to a
\* url in the scope base + "/api/v1/storage-systems/device-type{N}/" +
\* systemId, the sub-path, if any, separated by "/".
C23_DeviceScope ==
    (class \in {"Alletra6k", "Alletra9k"} /\ call.op \in DeviceOps) =>
        /\ systemurl = DeviceScope
        /\ \A i \in 1..Len(sent) : InScope(sent[i].url)

\* C24: systemId and systemurl of an Alletra6k or Alletra9k object are what
\* the constructor computed from the base url and the system identifier,
\* and no operation on the object changes systemId, systemurl or the base
\* url.
C24_SystemUrlFixed ==
    /\ [](class \in {"Alletra6k", "Alletra9k"} =>
            /\ systemId \in {str(sysId) : sysId \in SystemIds}
            /\ systemurl = DeviceScope)
    /\ [][UNCHANGED <<url, systemId, systemurl>>]_vars

\* An Alletra9k object after a token exchange and a refused createVolume.
C24_Witness ==
    /\ class = "Alletra9k"
    /\ call.op = "createVolume"
    /\ outcome.kind = "raise"
    /\ previous.call.op = "getAccessToken"
    /\ issued # <<>>
    /\ systemurl = BaseUrl \o "/api/v1/storage-systems/device-type1/7"

\* The object createGroup or addCluster builds from its arguments.
BuiltObject ==
    IF call.op = "createGroup"
    THEN PyDict(<< <<"description", call.description>>, <<"name", call.name>> >>)
    ELSE PyDict(<< <<"configureVds", call.configureVds>>,
                   <<"hypervisorClustername", call.clustername>>,
                   <<"vsphereDatacenterName", call.datacenter>> >>)

\* C25: createGroup and addCluster send the object built from their
\* arguments serialized to JSON once: decoding the payload once gives the
\* object.
C25_SerializedOnce ==
    call.op \in {"createGroup", "addCluster"} =>
        /\ Len(sent) = 1
        /\ sent[1].data \in Serializations(BuiltObject)

\* C29: getSettings, on an object of any class, sends GET base +
\* "/api/v1/settings" and returns the items of a 200 answer {"items": L}.
C29_SettingsItemsOnEveryClass ==
    call.op = "getSettings" =>
        /\ Len(sent) = 1
        /\ sent[1].method = "GET"
        /\ sent[1].url = url \o "/api/v1/settings"
        /\ (/\ call.response.status_code = 200
            /\ IsJson(call.response.text)
            /\ HasKey(json_loads(call.response.text), "items"))
                => outcome = Return(GetItem(json_loads(call.response.text), "items"))

C26_BodylessKeepsHeaders ==
    [][(\/ call'.op \in {"doGet", "doDelete"}
        \/ (call'.op \in BodyOps /\ ~truthy(call'.body)))
           => headers' = headers]_vars

\* A doPost with the empty object as body was refused, on a session that
\* holds a token and has sent no body before.
C26_Witness ==
    /\ call.op = "doPost"
    /\ call.body.type = "dict"
    /\ ~truthy(call.body)
    /\ outcome.kind = "raise"
    /\ DOMAIN headers = {"Authorization", "Accept"}

\* C27: between the operations of a sequential run, access_token is the
\* initial '' exactly when no exchange has succeeded yet, otherwise
\* headers['Authorization'] is "Bearer " + access_token['access_token'];
\* a failed getAccessToken changes neither access_token nor headers.
C27_TokenHeadersCoherent ==
    /\ [](/\ PyEq(access_token, PyStr("")) <=> (issued = <<>>)
          /\ issued # <<>> =>
                /\ "Authorization" \in DOMAIN headers
                /\ headers["Authorization"]
                       = "Bearer " \o str(GetItem(access_token, "access_token")))
    /\ [][(call'.op = "getAccessToken" /\ ~call'.reply.ok)
             => UNCHANGED <<access_token, headers>>]_vars

\* An exchange failed after an earlier one had succeeded and a body had
\* been sent with its token.
C27_Witness ==
    /\ call.op = "getAccessToken"
    /\ ~call.reply.ok
    /\ lastExchange = "failed"
    /\ issued # <<>>
    /\ access_token.type = "dict"
    /\ "Content-Type" \in DOMAIN headers
    /\ headers["Authorization"] = "Bearer " \o issued[1]

\* The headers map of the client object o.
HeadersOf(o) == dicts[instances[o].headers]

\* C28: an operation on one client object leaves access_token and the
\* headers map of every other client object as they were, and a request of
\* an object carries that object's own headers: the token in it is the one
\* the object itself acquired.
C28_InstancesIndependent ==
    /\ [][\A o \in Objects :
             call'.on # o =>
                 /\ instances'[o].access_token = instances[o].access_token
                 /\ dicts'[instances'[o].headers] = dicts[instances[o].headers]]_vars
    /\ [](call.op \in TransportOps =>
             \A i \in 1..Len(sent) :
                 /\ sent[i].headers = HeadersOf(call.on)
                 /\ "Authorization" \in DOMAIN sent[i].headers =>
                        /\ instances[call.on].access_token.type = "dict"
                        /\ sent[i].headers["Authorization"]
                               = "Bearer " \o str(GetItem(instances[call.on].access_token,
                                                          "access_token")))

\* B sent a body with its own token while A, with the same url and
\* credentials, holds another token and has sent no body.
C28_Witness ==
    /\ call.op = "doPost"
    /\ call.on = "B"
    /\ truthy(call.body)
    /\ "Authorization" \in DOMAIN HeadersOf("A")
    /\ "Authorization" \in DOMAIN HeadersOf("B")
    /\ HeadersOf("A")["Authorization"] # HeadersOf("B")["Authorization"]
    /\ "Content-Type" \in DOMAIN HeadersOf("B")
    /\ "Content-Type" \notin DOMAIN HeadersOf("A")

====
